---- MODULE Spec2Model ----
(***************************************************************************)
(* Model of the graph-based workflow runner in src/langgraph_builder.py:   *)
(* main loads and validates workflow.json, build_langgraph loads one agent *)
(* class per step and chains the steps, execute_langgraph seeds the shared *)
(* state and invokes the chain, every node resolves its inputs from the    *)
(* state, runs its agent and writes the output back.                       *)
(*                                                                         *)
(* Python strings are sequences of tokens: the characters "{", "}", "."    *)
(* and " " are tokens of their own, every other token is a word free of    *)
(* those characters.  Python dicts are finite functions; where iteration   *)
(* order matters (step inputs, agent outputs) they are sequences of        *)
(* <<key, value>> pairs in insertion order.                                *)
(***************************************************************************)
EXTENDS Integers, Sequences, FiniteSets, TLC

\* Largest number of steps of a workflow file.
MaxSteps == 3

----------------------------------------------------------------------------
(* Values held by the shared state, by step inputs and by agent outputs.   *)
(* One record shape for all of them: t is the Python type, n a number      *)
(* (the int itself, or the position of the producing step, 0 for a literal *)
(* of workflow.json), f the output field a value was returned under, s the *)
(* tokens of a string, the opaque elements of a list or the keys of a      *)
(* dict, e the elements of a list that are values themselves.              *)

StrVal(tokens) == [t |-> "str", n |-> 0, f |-> "", s |-> tokens, e |-> <<>>]
IntVal(k) == [t |-> "int", n |-> k, f |-> "", s |-> <<>>, e |-> <<>>]
ListVal(by, field, elems) ==
    [t |-> "list", n |-> by, f |-> field, s |-> elems, e |-> <<>>]
DictVal(by, field, keys) ==
    [t |-> "dict", n |-> by, f |-> field, s |-> keys, e |-> <<>>]

\* A literal list of workflow.json whose elements are the values elems.
NestedList(elems) == [t |-> "list", n |-> 0, f |-> "", s |-> <<>>, e |-> elems]

\* len(value) of a list, a dict or a string spelled character by character
PyLen(value) == Len(value.s) + Len(value.e)

\* The text "{{step.output.field}}".
Placeholder(step, field) ==
    <<"{", "{", step, ".", "output", ".", field, "}", "}">>

----------------------------------------------------------------------------
(* Python string and dict primitives.                                      *)

\* str.startswith / str.endswith
StartsWith(str, prefix) ==
    /\ Len(str) >= Len(prefix)
    /\ SubSeq(str, 1, Len(prefix)) = prefix

EndsWith(str, suffix) ==
    /\ Len(str) >= Len(suffix)
    /\ SubSeq(str, Len(str) - Len(suffix) + 1, Len(str)) = suffix

\* str.strip(chars): drop the leading and the trailing tokens that are in chars
RECURSIVE LStrip(_, _)
LStrip(str, chars) ==
    IF str # <<>> /\ Head(str) \in chars THEN LStrip(Tail(str), chars) ELSE str

RECURSIVE RStrip(_, _)
RStrip(str, chars) ==
    IF str # <<>> /\ str[Len(str)] \in chars
    THEN RStrip(SubSeq(str, 1, Len(str) - 1), chars)
    ELSE str

Strip(str, chars) == RStrip(LStrip(str, chars), chars)

\* str.split('.'): the parts between the dots, empty parts included
RECURSIVE SplitDots(_, _, _)
SplitDots(str, cur, acc) ==
    IF str = <<>> THEN Append(acc, cur)
    ELSE IF Head(str) = "." THEN SplitDots(Tail(str), <<>>, Append(acc, cur))
    ELSE SplitDots(Tail(str), Append(cur, Head(str)), acc)

Split(str) == SplitDots(str, <<>>, <<>>)

\* d[k] = v on a dict
Put(d, k, v) == [x \in (DOMAIN d) \cup {k} |-> IF x = k THEN v ELSE d[x]]

\* `part in d` for a piece of text and a dict keyed by words
InDict(part, d) == Len(part) = 1 /\ part[1] \in DOMAIN d

----------------------------------------------------------------------------
(* The workflow file.                                                      *)

\* Keys of every step that validate_workflow requires.
required_step_fields == {"id", "agent", "inputs", "instructions"}

\* Class names are sequences of capitalised words, module names sequences
\* of lower-case words (joined by "_" in the source).
ProspectSearchAgent == <<"Prospect", "Search", "Agent">>
ScoringAgent == <<"Scoring", "Agent">>
OutreachContentAgent == <<"Outreach", "Content", "Agent">>
FeedbackTrainerAgent == <<"Feedback", "Trainer", "Agent">>
EnrichmentAgent == <<"Enrichment", "Agent">>

\* Step definitions a workflow file is assembled from: the pipeline's own
\* steps, a step under an id the runner has no state key for, a step that
\* passes a literal list of leads, and a step naming an agent that has no
\* module in the agents package.
StepDefs ==
    { [id |-> "prospect_search", agent |-> ProspectSearchAgent,
       inputs |-> << <<"icp", DictVal(0, "icp", <<"industry", "location">>)>> >>],
      [id |-> "scoring", agent |-> ScoringAgent,
       inputs |-> << <<"leads", StrVal(Placeholder("prospect_search", "leads"))>> >>],
      [id |-> "feedback_trainer", agent |-> FeedbackTrainerAgent,
       inputs |-> << <<"responses", StrVal(Placeholder("scoring", "ranked_leads"))>> >>],
      [id |-> "custom", agent |-> ProspectSearchAgent,
       inputs |-> << <<"leads", ListVal(0, "leads", <<"lead">>)>> >>],
      [id |-> "custom", agent |-> ScoringAgent,
       inputs |-> << <<"leads", StrVal(Placeholder("enrichment", "leads"))>> >>],
      [id |-> "enrichment", agent |-> EnrichmentAgent,
       inputs |-> << <<"leads", StrVal(Placeholder("prospect_search", "leads"))>> >>] }

\* The step lists of at most MaxSteps steps.
StepLists == UNION { [1..n -> StepDefs] : n \in 0..MaxSteps }

\* What json.load can return for workflow.json: workflow_name present or
\* not; "steps" absent, a number, a mapping or a list; in a list at most one
\* step lacks one of its keys (missing = <<position, key>>, <<0, "">> for
\* none); error_handling.continue_on_error either way.
Workflows ==
    { [has_name |-> hn, steps_kind |-> "list", steps |-> st,
       missing |-> ms, continue_on_error |-> coe] :
        hn \in BOOLEAN, coe \in BOOLEAN,
        st \in StepLists, ms \in {<<0, "">>} \cup ((1..MaxSteps) \X required_step_fields) }
    \cup
    { [has_name |-> hn, steps_kind |-> sk, steps |-> <<>>,
       missing |-> <<0, "">>, continue_on_error |-> FALSE] :
        hn \in BOOLEAN, sk \in {"absent", "number", "mapping"} }

\* The workflow files: a missing key is a key of a step of the list.
WorkflowFiles == { w \in Workflows : w.missing[1] <= Len(w.steps) }

\* `field in step` for the step at position i of workflow w
HasField(w, i, field) == w.missing # <<i, field>>

----------------------------------------------------------------------------
(* validate_workflow: "ok", or the ValueError it raises.                   *)

\* Position of the first step that lacks a required key, 0 if none.
FirstIncompleteStep(w) ==
    LET bad == { i \in DOMAIN w.steps :
                   \E field \in required_step_fields : ~HasField(w, i, field) }
    IN  IF bad = {} THEN 0 ELSE CHOOSE i \in bad : \A j \in bad : i <= j

\* validate_workflow without its loop over the keys of every step
validate_workflow_SkipsStepKeys(w) ==
    IF ~w.has_name THEN "ValueError"
    ELSE IF w.steps_kind = "absent" THEN "ValueError"
    ELSE IF w.steps_kind # "list" \/ Len(w.steps) = 0 THEN "ValueError"
    ELSE "ok"

validate_workflow(w) ==
    IF ~w.has_name THEN "ValueError"
    ELSE IF w.steps_kind = "absent" THEN "ValueError"
    ELSE IF w.steps_kind # "list" \/ Len(w.steps) = 0 THEN "ValueError"
    ELSE IF FirstIncompleteStep(w) # 0 THEN "ValueError"
    ELSE "ok"

----------------------------------------------------------------------------
(* load_agent_class: the class name is turned into a module name, the      *)
(* module imported from the agents package and the class looked up in it.  *)

Lower(word) ==
    CASE word = "Prospect" -> "prospect"
      [] word = "Search" -> "search"
      [] word = "Scoring" -> "scoring"
      [] word = "Outreach" -> "outreach"
      [] word = "Content" -> "content"
      [] word = "Feedback" -> "feedback"
      [] word = "Trainer" -> "trainer"
      [] word = "Enrichment" -> "enrichment"
      [] word = "Agent" -> "agent"
      [] OTHER -> word

\* re.sub(r'(?<!^)(?=[A-Z])', '_', agent_name).lower()
ModuleName(agent_name) == [i \in 1..Len(agent_name) |-> Lower(agent_name[i])]

\* The modules of the agents package that define an agent class.
AgentModules ==
    { <<"prospect", "search", "agent">>, <<"scoring", "agent">>,
      <<"outreach", "content", "agent">>, <<"feedback", "trainer", "agent">> }

\* The agent class each module defines.
ClassOf(module) ==
    CASE module = <<"prospect", "search", "agent">> -> ProspectSearchAgent
      [] module = <<"scoring", "agent">> -> ScoringAgent
      [] module = <<"outreach", "content", "agent">> -> OutreachContentAgent
      [] module = <<"feedback", "trainer", "agent">> -> FeedbackTrainerAgent

\* load_agent_class never raising: the import is left to the node
load_agent_class_Deferred(agent_name) == TRUE

\* TRUE when load_agent_class returns a class, FALSE when it raises.
load_agent_class(agent_name) ==
    /\ ModuleName(agent_name) \in AgentModules
    /\ ClassOf(ModuleName(agent_name)) = agent_name

----------------------------------------------------------------------------
(* Resolution of a step's inputs against the shared state.                 *)

extract_state_key(placeholder) ==
    LET stripped == Strip(Strip(placeholder, {"{", "}"}), {" "})
        parts == Split(stripped)
    IN  IF Len(parts) >= 3 /\ parts[2] = <<"output">>
        THEN parts[3]
        ELSE parts[Len(parts)]

\* The loop body without the test for the braces: every string is looked up
ResolveInput_NoBraceCheck(value, st) ==
    IF value.t = "str"
    THEN LET state_key == extract_state_key(value.s)
         IN  IF InDict(state_key, st) THEN st[state_key[1]] ELSE value
    ELSE value

\* The loop body handing on the text of the referenced value, str(state[key])
ResolveInput_Stringifies(value, st) ==
    IF /\ value.t = "str"
       /\ StartsWith(value.s, <<"{", "{">>)
       /\ EndsWith(value.s, <<"}", "}">>)
    THEN LET state_key == extract_state_key(value.s)
         IN  IF InDict(state_key, st)
             THEN [st[state_key[1]] EXCEPT !.t = "str"]
             ELSE value
    ELSE value

\* The loop body blanking an input whose state key is not found
ResolveInput_BlanksUnresolved(value, st) ==
    IF /\ value.t = "str"
       /\ StartsWith(value.s, <<"{", "{">>)
       /\ EndsWith(value.s, <<"}", "}">>)
    THEN LET state_key == extract_state_key(value.s)
         IN  IF InDict(state_key, st) THEN st[state_key[1]] ELSE StrVal(<<>>)
    ELSE value

\* One entry of the loop of prepare_inputs_from_state.
ResolveInput(value, st) ==
    IF /\ value.t = "str"
       /\ StartsWith(value.s, <<"{", "{">>)
       /\ EndsWith(value.s, <<"}", "}">>)
    THEN LET state_key == extract_state_key(value.s)
         IN  IF InDict(state_key, st) THEN st[state_key[1]] ELSE value
    ELSE value

\* The resolved inputs: a dict from the keys of input_config.
prepare_inputs_from_state(input_config, st) ==
    LET keys == { input_config[i][1] : i \in DOMAIN input_config }
        last(k) == CHOOSE i \in DOMAIN input_config :
                      /\ input_config[i][1] = k
                      /\ \A j \in DOMAIN input_config :
                            input_config[j][1] = k => j <= i
    IN  [k \in keys |-> ResolveInput(input_config[last(k)][2], st)]

----------------------------------------------------------------------------
(* update_state_with_output.                                               *)

\* output_mapping: step id -> state key (as a set of pairs)
output_mapping ==
    { <<"prospect_search", "leads">>, <<"enrichment", "enriched_leads">>,
      <<"scoring", "ranked_leads">>, <<"outreach_content", "messages">>,
      <<"send", "sent_status">>, <<"response_tracking", "responses">>,
      <<"feedback_trainer", "recommendations">> }

MappingKeys == { m[1] : m \in output_mapping }
MappingValues == { m[2] : m \in output_mapping }
MappedKey(step_id) == (CHOOSE m \in output_mapping : m[1] = step_id)[2]

\* One iteration of the loop over output.items().
StoreItem(st, step_id, key, value) ==
    IF key \in MappingValues THEN Put(st, key, value)
    ELSE IF step_id \in MappingKeys THEN Put(st, MappedKey(step_id), value)
    ELSE st

RECURSIVE StoreItems(_, _, _)
StoreItems(st, step_id, items) ==
    IF items = <<>> THEN st
    ELSE StoreItems(StoreItem(st, step_id, items[1][1], items[1][2]),
                    step_id, Tail(items))

update_state_with_output(st, step_id, output) == StoreItems(st, step_id, output)

----------------------------------------------------------------------------
(* The agents, seen from the runner: agent_class(...).run(inputs) returns  *)
(* one of the mappings the class's run method can return, or raises.       *)

\* The status strings of FeedbackTrainerAgent, spelled character by character.
NoData(i) ==
    [t |-> "str", n |-> i, f |-> "status",
     s |-> <<"n", "o", "_", "d", "a", "t", "a">>, e |-> <<>>]
PendingApproval(i) ==
    [t |-> "str", n |-> i, f |-> "status",
     s |-> <<"p", "e", "n", "d", "i", "n", "g", "_",
             "a", "p", "p", "r", "o", "v", "a", "l">>, e |-> <<>>]

\* The mappings run can return when called by the step at position i.
RunOutputs(agent_name, i) ==
    CASE agent_name = ProspectSearchAgent ->
            { << <<"leads", ListVal(i, "leads", <<>>)>> >>,
              << <<"leads", ListVal(i, "leads", <<"lead", "lead">>)>> >> }
      [] agent_name = ScoringAgent ->
            { << <<"ranked_leads", ListVal(i, "ranked_leads", <<>>)>> >>,
              << <<"ranked_leads", ListVal(i, "ranked_leads", <<"lead", "lead">>)>> >> }
      [] agent_name = OutreachContentAgent ->
            { << <<"messages", ListVal(i, "messages", <<>>)>> >>,
              << <<"messages", ListVal(i, "messages", <<"message">>)>> >> }
      [] agent_name = FeedbackTrainerAgent ->
            { << <<"recommendations", ListVal(i, "recommendations", <<>>)>>,
                 <<"status", NoData(i)>> >>,
              << <<"recommendations",
                   ListVal(i, "recommendations", <<"rec", "rec", "rec">>)>>,
                 <<"campaign_metrics",
                   DictVal(i, "campaign_metrics", <<"open_rate", "reply_rate">>)>>,
                 <<"status", PendingApproval(i)>> >> }
      [] OTHER -> {}

----------------------------------------------------------------------------
(* The run of main.                                                        *)

VARIABLES
    file,       \* workflow.json on disk: "absent", "bad_json" or "ok"
    workflow,   \* what json.load returns for it
    pc,         \* where main is
    loaded,     \* the agent classes load_agent_class has returned, in order
    graph,      \* the StateGraph under construction / compiled
    current,    \* the node of the graph that runs next
    state,      \* the WorkflowState dict handed from node to node
    executed,   \* the nodes run so far: [pos, id, result, output]
    raised,     \* the exception on its way up, "none" if none
    report,     \* what execute_langgraph returned
    saved,      \* whether main has written the results file
    input_config,     \* a call of prepare_inputs_from_state: its input_config,
    call_state,       \* its state,
    resolved_inputs,  \* the dict it returned,
    call,             \* and where the call is: "idle", "called", "returned"
    run_agent,   \* a call of an agent's run: the agent class,
    use_openai,  \* self.use_openai of an OutreachContentAgent,
    run_inputs,  \* the inputs dict (as the caller sees it),
    run_pc,      \* where the call is: "idle", "called", "returned", "raised"
    run_output,  \* the dict run returned,
    run_raised   \* the exception that left run, "none" if none

main_vars == <<file, workflow, pc, loaded, graph, current, state, executed,
               raised, report, saved>>
resolver_vars == <<input_config, call_state, resolved_inputs, call>>
agent_vars == <<run_agent, use_openai, run_inputs, run_pc, run_output,
                run_raised>>
vars == <<main_vars, resolver_vars, agent_vars>>

\* No agent's run is being called on its own.
AgentIdle ==
    /\ run_agent = "none"
    /\ use_openai = FALSE
    /\ run_inputs = << >>
    /\ run_pc = "idle"
    /\ run_output = << >>
    /\ run_raised = "none"

END == "__end__"
NoGraph == [nodes |-> <<>>, edges |-> {}, entry_point |-> END]
NoReport == [status |-> "none"]

\* The workflow of a file that is absent or no JSON is never looked at.
NoWorkflow ==
    [has_name |-> FALSE, steps_kind |-> "absent", steps |-> <<>>,
     missing |-> <<0, "">>, continue_on_error |-> FALSE]

Init ==
    /\ \/ file = "ok" /\ workflow \in WorkflowFiles
       \/ file \in {"absent", "bad_json"} /\ workflow = NoWorkflow
    /\ pc = "load_workflow"
    /\ loaded = <<>>
    /\ graph = NoGraph
    /\ current = END
    /\ state = << >>
    /\ executed = <<>>
    /\ raised = "none"
    /\ report = NoReport
    /\ saved = FALSE
    /\ input_config = <<>>
    /\ call_state = << >>
    /\ resolved_inputs = << >>
    /\ call = "idle"
    /\ AgentIdle

\* The handler of main logging the exception and returning normally
Raise_Swallowed(exception) ==
    /\ pc' = "done"
    /\ raised' = "none"

\* An exception leaves main: its handler logs it and raises it again.
Raise(exception) ==
    /\ pc' = "raised"
    /\ raised' = exception

\* load_workflow("workflow.json")
LoadWorkflow ==
    /\ pc = "load_workflow"
    /\ UNCHANGED <<resolver_vars, agent_vars>>
    /\ IF file = "absent" THEN Raise("FileNotFoundError")
       ELSE IF file = "bad_json" THEN Raise("JSONDecodeError")
       ELSE IF workflow.steps_kind = "number" THEN Raise("TypeError")
       ELSE pc' = "validate_workflow" /\ raised' = raised
    /\ UNCHANGED <<file, workflow, loaded, graph, current, state, executed,
                   report, saved>>

\* validate_workflow(workflow)
ValidateWorkflow ==
    /\ pc = "validate_workflow"
    /\ UNCHANGED <<resolver_vars, agent_vars>>
    /\ IF validate_workflow(workflow) = "ok"
       THEN pc' = "build_langgraph" /\ raised' = raised
       ELSE Raise(validate_workflow(workflow))
    /\ UNCHANGED <<file, workflow, loaded, graph, current, state, executed,
                   report, saved>>

\* The loop of build_langgraph over the steps from position i on: every
\* iteration loads the step's agent class and adds a node under the step's
\* id; StateGraph.add_node refuses an id that is already a node.
RECURSIVE AddNodes(_, _, _, _)
AddNodes(steps, i, g, classes) ==
    IF i > Len(steps) THEN [exception |-> "none", graph |-> g, loaded |-> classes]
    ELSE IF ~load_agent_class(steps[i].agent)
    THEN [exception |-> "Exception", graph |-> g, loaded |-> classes]
    ELSE IF \E k \in DOMAIN g.nodes : g.nodes[k].id = steps[i].id
    THEN [exception |-> "ValueError", graph |-> g,
          loaded |-> Append(classes, steps[i].agent)]
    ELSE AddNodes(steps, i + 1,
                  [g EXCEPT !.nodes = Append(@, [id |-> steps[i].id, step |-> i])],
                  Append(classes, steps[i].agent))

\* The edges with the entry point set to the last step instead of the first
AddEdges_EntryAtLastStep(steps, g) ==
    [g EXCEPT
       !.edges = { <<steps[i].id, steps[i + 1].id>> : i \in 1..(Len(steps) - 1) }
                 \cup { <<steps[Len(steps)].id, END>> },
       !.entry_point = steps[Len(steps)].id]

\* The edges build_langgraph adds: each step to the next, the last to END.
AddEdges(steps, g) ==
    [g EXCEPT
       !.edges = { <<steps[i].id, steps[i + 1].id>> : i \in 1..(Len(steps) - 1) }
                 \cup { <<steps[Len(steps)].id, END>> },
       !.entry_point = steps[1].id]

\* build_langgraph(workflow)
BuildLanggraph ==
    /\ pc = "build_langgraph"
    /\ UNCHANGED <<resolver_vars, agent_vars>>
    /\ LET built == AddNodes(workflow.steps, 1, NoGraph, <<>>)
       IN  /\ loaded' = built.loaded
           /\ IF built.exception = "none"
              THEN /\ graph' = AddEdges(workflow.steps, built.graph)
                   /\ pc' = "execute_langgraph"
                   /\ raised' = raised
              ELSE /\ graph' = built.graph
                   /\ Raise(built.exception)
    /\ UNCHANGED <<file, workflow, current, state, executed, report, saved>>

\* The first-step inputs that execute_langgraph copies into the state.
RECURSIVE SeedInputs(_, _)
SeedInputs(st, items) ==
    IF items = <<>> THEN st
    ELSE LET key == items[1][1]
             value == items[1][2]
         IN  SeedInputs(IF ~(value.t = "str" /\ StartsWith(value.s, <<"{", "{">>))
                        THEN Put(st, key, value)
                        ELSE st,
                        Tail(items))

initial_state(w) ==
    SeedInputs(Put(Put(<< >>, "step_count", IntVal(0)),
                   "errors", ListVal(0, "errors", <<>>)),
               w.steps[1].inputs)

\* execute_langgraph up to graph.invoke(initial_state)
ExecuteLanggraph ==
    /\ pc = "execute_langgraph"
    /\ UNCHANGED <<resolver_vars, agent_vars>>
    /\ state' = initial_state(workflow)
    /\ current' = graph.entry_point
    /\ pc' = "invoke"
    /\ UNCHANGED <<file, workflow, loaded, graph, executed, raised, report,
                   saved>>

\* The step a node of the graph was created for.
NodeStep(g, w, node) ==
    w.steps[(CHOOSE k \in DOMAIN g.nodes : g.nodes[k].id = node)]

NodePos(g, node) ==
    g.nodes[(CHOOSE k \in DOMAIN g.nodes : g.nodes[k].id = node)].step

\* A graph whose edge out of a node leads back to the node itself
Successor_Retry(g, node) == node

\* The node the graph runs after `node`.
Successor(g, node) == CHOOSE to \in {e[2] : e \in g.edges} : <<node, to>> \in g.edges

\* state.get(key, default)
Get(st, key, default) == IF key \in DOMAIN st THEN st[key] ELSE default

\* node_function counting a returning step twice
NodeReturns_CountsTwice(st, step_id, output) ==
    LET updated == update_state_with_output(st, step_id, output)
    IN  Put(updated, "step_count",
            IntVal(Get(updated, "step_count", IntVal(0)).n + 2))

\* node_function counting the step without storing the agent's output
NodeReturns_CountsOnly(st, step_id, output) ==
    Put(st, "step_count", IntVal(Get(st, "step_count", IntVal(0)).n + 1))

\* node_function, the agent returning output
NodeReturns(st, step_id, output) ==
    LET updated == update_state_with_output(st, step_id, output)
    IN  Put(updated, "step_count",
            IntVal(Get(updated, "step_count", IntVal(0)).n + 1))

\* The except clause of node_function also counting the step
NodeRaises_CountsStep(st, step_id) ==
    LET with_errors == IF "errors" \in DOMAIN st THEN st
                       ELSE [x \in (DOMAIN st) \cup {"errors"} |->
                               IF x = "errors" THEN ListVal(0, "errors", <<>>)
                               ELSE st[x]]
    IN  [x \in DOMAIN with_errors |->
            IF x = "errors"
            THEN [with_errors[x] EXCEPT !.s = Append(@, step_id)]
            ELSE IF x = "step_count"
            THEN IntVal(with_errors[x].n + 1)
            ELSE with_errors[x]]

\* node_function, the agent raising: the except clause
NodeRaises(st, step_id) ==
    LET with_errors == IF "errors" \in DOMAIN st THEN st
                       ELSE Put(st, "errors", ListVal(0, "errors", <<>>))
    IN  Put(with_errors, "errors",
            [with_errors["errors"] EXCEPT !.s = Append(@, step_id)])

\* One node of the graph runs: node_function(state)
NodeFunction ==
    /\ pc = "invoke"
    /\ UNCHANGED <<resolver_vars, agent_vars>>
    /\ current # END
    /\ LET step == NodeStep(graph, workflow, current)
           pos == NodePos(graph, current)
           inputs == prepare_inputs_from_state(step.inputs, state)
       IN  \/ \E output \in RunOutputs(step.agent, pos) :
                /\ state' = NodeReturns(state, step.id, output)
                /\ executed' = Append(executed,
                       [pos |-> pos, id |-> step.id, result |-> "success",
                        inputs |-> inputs, output |-> output])
                /\ current' = Successor(graph, current)
                /\ UNCHANGED <<pc, raised>>
           \/ /\ state' = NodeRaises(state, step.id)
              /\ executed' = Append(executed,
                     [pos |-> pos, id |-> step.id, result |-> "failed",
                      inputs |-> inputs, output |-> <<>>])
              /\ raised' = "AgentError"
              /\ pc' = "except"
              /\ UNCHANGED current
    /\ UNCHANGED <<file, workflow, loaded, graph, report, saved>>

\* len(final_state.get(key, []))
CountOf(st, key) == PyLen(Get(st, key, ListVal(0, key, <<>>)))

\* The execution_results execute_langgraph builds when graph.invoke returns.
execution_results(final_state) ==
    [workflow_name |-> "workflow_name",
     start_time |-> "start_time", end_time |-> "end_time",
     steps_executed |-> Get(final_state, "step_count", IntVal(0)).n,
     status |-> IF PyLen(Get(final_state, "errors", ListVal(0, "errors", <<>>))) = 0
                THEN "completed" ELSE "partial_failure",
     errors |-> Get(final_state, "errors", ListVal(0, "errors", <<>>)).s,
     final_state |-> [leads_count |-> CountOf(final_state, "leads"),
                      ranked_leads_count |-> CountOf(final_state, "ranked_leads"),
                      messages_count |-> CountOf(final_state, "messages"),
                      recommendations_count |-> CountOf(final_state, "recommendations")]]

\* The except clause of execute_langgraph reporting a partial failure
failure_results_PartialFailure(exception) ==
    [workflow_name |-> "workflow_name",
     start_time |-> "start_time", end_time |-> "end_time",
     status |-> "partial_failure", error |-> exception]

\* What execute_langgraph returns from its except clause.
failure_results(exception) ==
    [workflow_name |-> "workflow_name",
     start_time |-> "start_time", end_time |-> "end_time",
     status |-> "failed", error |-> exception]

\* graph.invoke has returned: execute_langgraph returns execution_results
ReturnResults ==
    /\ pc = "invoke"
    /\ UNCHANGED <<resolver_vars, agent_vars>>
    /\ current = END
    /\ report' = execution_results(state)
    /\ pc' = "save_results"
    /\ UNCHANGED <<file, workflow, loaded, graph, current, state, executed,
                   raised, saved>>

\* The except clause of execute_langgraph raising the exception again
ReturnFailure_Reraises ==
    /\ pc = "except"
    /\ UNCHANGED <<resolver_vars, agent_vars>>
    /\ pc' = "raised"
    /\ UNCHANGED <<file, workflow, loaded, graph, current, state, executed,
                   raised, report, saved>>

\* graph.invoke has raised: the except clause of execute_langgraph
ReturnFailure ==
    /\ pc = "except"
    /\ UNCHANGED <<resolver_vars, agent_vars>>
    /\ report' = failure_results(raised)
    /\ raised' = "none"
    /\ pc' = "save_results"
    /\ UNCHANGED <<file, workflow, loaded, graph, current, state, executed,
                   saved>>

\* main prints the summary and writes the results file
SaveResults ==
    /\ pc = "save_results"
    /\ UNCHANGED <<resolver_vars, agent_vars>>
    /\ saved' = TRUE
    /\ pc' = "done"
    /\ UNCHANGED <<file, workflow, loaded, graph, current, state, executed,
                   raised, report>>

Next ==
    \/ LoadWorkflow
    \/ ValidateWorkflow
    \/ BuildLanggraph
    \/ ExecuteLanggraph
    \/ NodeFunction
    \/ ReturnResults
    \/ ReturnFailure
    \/ SaveResults

Spec == Init /\ [][Next]_vars

----------------------------------------------------------------------------
(* prepare_inputs_from_state called on its own, for every input            *)
(* configuration and state of a bounded collection.                        *)

\* Largest number of inputs of a step.
MaxInputs == 2

InputKeys == {"leads", "responses", "top_n"}

\* The text "prefix {{a.output.b}} suffix".
EmbeddedReference ==
    <<"prefix", " ">> \o Placeholder("a", "b") \o <<" ", "suffix">>

\* Input values of workflow.json: a number, plain strings (one spelling a
\* state key), a mapping, references that are the whole string, a reference
\* inside a longer string and a reference inside a list.
InputValues ==
    { IntVal(10),
      StrVal(<<"professional">>),
      StrVal(<<"leads">>),
      DictVal(0, "icp", <<"industry", "location">>),
      StrVal(Placeholder("a", "b")),
      StrVal(Placeholder("missing", "x")),
      StrVal(EmbeddedReference),
      NestedList(<<StrVal(Placeholder("a", "b"))>>) }

\* Input configurations: at most MaxInputs entries under distinct keys.
InputConfigs ==
    { c \in UNION { [1..n -> InputKeys \X InputValues] : n \in 1..MaxInputs } :
        \A i, j \in DOMAIN c : i # j => c[i][1] # c[j][1] }

\* States the call can meet: empty, or with field b a number, a list or a
\* mapping.
CallStates ==
    { << >>,
      Put(<< >>, "b", IntVal(42)),
      Put(<< >>, "b", ListVal(1, "b", <<"lead", "lead">>)),
      Put(Put(<< >>, "b", DictVal(1, "b", <<"open_rate">>)),
          "leads", ListVal(1, "leads", <<"lead">>)) }

InitResolve ==
    /\ file = "absent"
    /\ workflow = NoWorkflow
    /\ pc = "idle"
    /\ loaded = <<>>
    /\ graph = NoGraph
    /\ current = END
    /\ state = << >>
    /\ executed = <<>>
    /\ raised = "none"
    /\ report = NoReport
    /\ saved = FALSE
    /\ input_config \in InputConfigs
    /\ call_state \in CallStates
    /\ resolved_inputs = << >>
    /\ call = "called"
    /\ AgentIdle

\* prepare_inputs_from_state writing the resolved values into input_config
PrepareInputs_InPlace ==
    /\ call = "called"
    /\ resolved_inputs' = prepare_inputs_from_state(input_config, call_state)
    /\ input_config' =
          [i \in DOMAIN input_config |->
             <<input_config[i][1], ResolveInput(input_config[i][2], call_state)>>]
    /\ call' = "returned"
    /\ UNCHANGED call_state
    /\ UNCHANGED <<main_vars, agent_vars>>

\* prepare_inputs_from_state(input_config, state)
PrepareInputs ==
    /\ call = "called"
    /\ resolved_inputs' = prepare_inputs_from_state(input_config, call_state)
    /\ call' = "returned"
    /\ UNCHANGED <<input_config, call_state>>
    /\ UNCHANGED <<main_vars, agent_vars>>

NextResolve == PrepareInputs

SpecResolve == InitResolve /\ [][NextResolve]_vars

----------------------------------------------------------------------------
(* The agents' run methods, called on their own.  A lead is a dict with    *)
(* the keys company, contact_name (its words), signal, revenue (in         *)
(* millions) and employee_count; the other keys of the mock data (email,   *)
(* linkedin, title) are only copied by the code and are left out.          *)

\* BaseAgent.validate_inputs
validate_inputs(inputs, required_fields) ==
    \A i \in DOMAIN required_fields : required_fields[i] \in DOMAIN inputs

\* What a call of run leaves behind: the exception that left it, the dict it
\* returned, and the inputs dict as the caller sees it afterwards.
Returns(inputs, output) == [raised |-> "none", output |-> output, inputs |-> inputs]
Raises(inputs, exception) == [raised |-> exception, output |-> << >>, inputs |-> inputs]

Lead(company, contact_name, signal, revenue, employee_count) ==
    [company |-> company, contact_name |-> contact_name, signal |-> signal,
     revenue |-> revenue, employee_count |-> employee_count]

\* mock_companies of ProspectSearchAgent.run
mock_companies ==
    << Lead("CloudSync Technologies", <<"Sarah", "Mitchell">>, "recent_funding", 45, 250),
       Lead("DataFlow Systems", <<"Michael", "Chen">>, "hiring_for_sales", 78, 450),
       Lead("AutoScale Inc", <<"Jennifer", "Rodriguez">>, "recent_funding", 32, 180),
       Lead("SecureAPI Solutions", <<"David", "Park">>, "hiring_for_sales", 125, 620),
       Lead("MetricsPro Analytics", <<"Amanda", "Johnson">>, "recent_funding", 55, 320),
       Lead("PipelineHub", <<"Robert", "Kim">>, "hiring_for_sales", 89, 410),
       Lead("RevOps Platform", <<"Lisa", "Thompson">>, "recent_funding", 67, 380),
       Lead("GrowthEngine AI", <<"James", "Wilson">>, "hiring_for_sales", 42, 215) >>

\* x in seq
Has(seq, x) == \E i \in DOMAIN seq : seq[i] = x

\* The two tests of the loop of _filter_by_icp on one company.
MatchesIcp(company, employee_count, signals) ==
    LET min_employees == IF "min" \in DOMAIN employee_count
                         THEN employee_count["min"] ELSE 0
    IN  /\ min_employees <= company.employee_count
        /\ "max" \in DOMAIN employee_count
             => company.employee_count <= employee_count["max"]
        /\ ~(signals # <<>> /\ ~Has(signals, company.signal))

\* ProspectSearchAgent._filter_by_icp
RECURSIVE filter_by_icp(_, _, _)
filter_by_icp(companies, employee_count, signals) ==
    IF companies = <<>> THEN <<>>
    ELSE (IF MatchesIcp(Head(companies), employee_count, signals)
          THEN <<Head(companies)>> ELSE <<>>)
         \o filter_by_icp(Tail(companies), employee_count, signals)

\* random.sample(population, k): the lists of k elements at different places
RECURSIVE SamplePlaces(_, _)
SamplePlaces(places, k) ==
    IF k = 0 THEN { <<>> }
    ELSE UNION { { <<p>> \o rest : rest \in SamplePlaces(places \ {p}, k - 1) } :
                 p \in places }

sample(population, k) ==
    { [i \in 1..k |-> population[places[i]]] :
        places \in SamplePlaces(DOMAIN population, k) }

\* min(a, b)
Min(a, b) == IF a <= b THEN a ELSE b

\* ProspectSearchAgent.run: the outcomes of one call
ProspectSearch_run(inputs) ==
    IF ~validate_inputs(inputs, <<"industry", "location", "employee_count", "signals">>)
    THEN { Returns(inputs, [leads |-> <<>>]) }
    ELSE LET filtered_leads == filter_by_icp(mock_companies,
                                             inputs["employee_count"],
                                             inputs["signals"])
             hi == Min(8, Len(filtered_leads))
         IN  IF hi < 5
             THEN { Raises(inputs, "ValueError") }
             ELSE { Returns(inputs, [leads |-> selected_leads]) :
                      selected_leads \in UNION { sample(filtered_leads, num_leads) :
                                                  num_leads \in 5..hi } }

\* dict.get(key, default)
DictGet(d, key, default) == IF key \in DOMAIN d THEN d[key] ELSE default

\* ScoringAgent._calculate_score followed by round(score, 2), in hundredths.
\* Weights are in tenths (the defaults 0.3, 0.2, 0.5 are 3, 2, 5); the
\* revenue score is revenue_36 / 36 and the employee score employee_5 / 5, so
\* 100 * total_score = total_18 / 18.
calculate_score(lead, revenue_weight, employee_weight, signal_weight) ==
    LET revenue == DictGet(lead, "revenue", 50)
        revenue_36 == IF revenue >= 200 THEN 3600
                      ELSE IF revenue >= 20 THEN 1800 + 10 * (revenue - 20)
                      ELSE 90 * revenue
        employees == DictGet(lead, "employee_count", 300)
        employee_5 == IF 100 <= employees /\ employees <= 1000 THEN 500
                      ELSE IF employees > 1000 THEN 400
                      ELSE 4 * employees
        signal_score == IF DictGet(lead, "signal", "") # "" THEN 100 ELSE 50
        total_18 == 5 * revenue_weight * revenue_36
                    + 36 * employee_weight * employee_5
                    + 180 * signal_weight * signal_score
    IN  Min((2 * total_18 + 18) \div 36, 10000)

\* One iteration of the scoring loop writing the score into the lead itself
ScoreLead_InPlace(lead, scoring_criteria) ==
    LET score == calculate_score(lead,
                     DictGet(scoring_criteria, "revenue_weight", 3),
                     DictGet(scoring_criteria, "employee_count_weight", 2),
                     DictGet(scoring_criteria, "signal_weight", 5))
    IN  [lead |-> Put(lead, "score", score),
         lead_with_score |-> Put(lead, "score", score)]

\* One iteration of the scoring loop: the lead as it is left, and the scored
\* copy appended to scored_leads.
ScoreLead(lead, scoring_criteria) ==
    LET score == calculate_score(lead,
                     DictGet(scoring_criteria, "revenue_weight", 3),
                     DictGet(scoring_criteria, "employee_count_weight", 2),
                     DictGet(scoring_criteria, "signal_weight", 5))
    IN  [lead |-> lead, lead_with_score |-> Put(lead, "score", score)]

\* x put into a list sorted from high to low key, behind the elements whose
\* key is not lower (equal keys keep their order).
RECURSIVE InsertByKey(_, _, _)
InsertByKey(sorted, x, key) ==
    IF sorted = <<>> THEN <<x>>
    ELSE IF Head(sorted)[key] >= x[key]
    THEN <<Head(sorted)>> \o InsertByKey(Tail(sorted), x, key)
    ELSE <<x>> \o sorted

\* sorted(seq, key=lambda x: x[key], reverse=True)
RECURSIVE SortedReverse(_, _)
SortedReverse(seq, key) ==
    IF seq = <<>> THEN <<>>
    ELSE InsertByKey(SortedReverse(SubSeq(seq, 1, Len(seq) - 1), key),
                     seq[Len(seq)], key)

\* ScoringAgent.run ranking the leads in the order they came in
Scoring_run_Unsorted(inputs) ==
    IF ~validate_inputs(inputs, <<"leads">>)
    THEN { Returns(inputs, [ranked_leads |-> <<>>]) }
    ELSE LET leads == inputs["leads"]
             scoring_criteria == DictGet(inputs, "scoring_criteria", << >>)
         IN  IF leads = <<>>
             THEN { Returns(inputs, [ranked_leads |-> <<>>]) }
             ELSE LET scored == [i \in DOMAIN leads |->
                                   ScoreLead(leads[i], scoring_criteria)]
                      ranked_leads == [i \in DOMAIN leads |-> scored[i].lead_with_score]
                  IN  { Returns([inputs EXCEPT !["leads"] =
                                    [i \in DOMAIN leads |-> scored[i].lead]],
                                [ranked_leads |->
                                   [i \in DOMAIN ranked_leads |->
                                      Put(ranked_leads[i], "ranking", i)]]) }

\* ScoringAgent.run
Scoring_run(inputs) ==
    IF ~validate_inputs(inputs, <<"leads">>)
    THEN { Returns(inputs, [ranked_leads |-> <<>>]) }
    ELSE LET leads == inputs["leads"]
             scoring_criteria == DictGet(inputs, "scoring_criteria", << >>)
         IN  IF leads = <<>>
             THEN { Returns(inputs, [ranked_leads |-> <<>>]) }
             ELSE LET scored == [i \in DOMAIN leads |->
                                   ScoreLead(leads[i], scoring_criteria)]
                      ranked_leads ==
                          SortedReverse([i \in DOMAIN leads |-> scored[i].lead_with_score],
                                        "score")
                  IN  { Returns([inputs EXCEPT !["leads"] =
                                    [i \in DOMAIN leads |-> scored[i].lead]],
                                [ranked_leads |->
                                   [i \in DOMAIN ranked_leads |->
                                      Put(ranked_leads[i], "ranking", i)]]) }

\* seq[:n]
SliceTo(seq, n) ==
    IF n >= 0 THEN SubSeq(seq, 1, Min(n, Len(seq)))
    ELSE SubSeq(seq, 1, IF Len(seq) + n > 0 THEN Len(seq) + n ELSE 0)

\* contact_name.split()[0] if contact_name else "there"
FirstName(contact_name) == IF contact_name = <<>> THEN "there" ELSE Head(contact_name)

\* The subject line the template picks for a signal.
TemplateSubject(signal, company) ==
    IF signal = "recent_funding" THEN <<"Congrats on", company, "'s recent funding!">>
    ELSE IF signal = "hiring_for_sales" THEN <<"Scaling", company, "'s sales team?">>
    ELSE <<"Quick idea for", company>>

\* OutreachContentAgent._create_email_body_template: the parts that vary
create_email_body_template(first_name, company, title, signal) ==
    <<"Hi", first_name,
      IF signal = "recent_funding" THEN "recently raised funding"
      ELSE IF signal = "hiring_for_sales" THEN "actively hiring for sales roles"
      ELSE "following growth",
      company>>

\* OutreachContentAgent._generate_email_template
generate_email_template(lead, persona, tone) ==
    LET company == DictGet(lead, "company", "your company")
        contact_name == DictGet(lead, "contact_name", <<"there">>)
        signal == DictGet(lead, "signal", "")
    IN  [lead |-> company,
         contact_name |-> contact_name,
         subject |-> TemplateSubject(signal, company),
         email_body |-> create_email_body_template(FirstName(contact_name),
                                                   company, "", signal),
         generated_by |-> "template"]

\* mock_api.mock_gpt_email_generation called with the positional arguments
\* args: it has one parameter, company_name.
mock_gpt_email_generation(args) ==
    IF Len(args) # 1 THEN [raised |-> "TypeError"]
    ELSE [raised |-> "none",
          subject |-> <<"Scaling", args[1], "'s sales team?">>,
          body |-> <<"Hi team", args[1]>>]

\* What the chat completion can do: raise, or answer with or without the
\* "BODY:" marker.
LlmReplies == {"error", "subject_and_body", "no_body_marker"}

\* The except clause of _generate_email_with_gpt: the local fallback
GptFallback(lead, tone) ==
    LET mock_response == mock_gpt_email_generation(<<DictGet(lead, "company", "Unknown"), tone>>)
    IN  IF mock_response.raised # "none"
        THEN [raised |-> mock_response.raised, message |-> << >>]
        ELSE IF {"subject", "email_body", "generated_by"} \subseteq DOMAIN mock_response
        THEN [raised |-> "none",
              message |-> [lead |-> DictGet(lead, "company", "Unknown"),
                           contact_name |-> DictGet(lead, "contact_name", <<>>),
                           subject |-> mock_response.subject,
                           email_body |-> mock_response.email_body,
                           generated_by |-> mock_response.generated_by]]
        ELSE [raised |-> "KeyError", message |-> << >>]

\* OutreachContentAgent._generate_email_with_gpt, the completion doing reply
generate_email_with_gpt(lead, persona, tone, reply) ==
    LET company == DictGet(lead, "company", "the company")
        contact_name == DictGet(lead, "contact_name", <<"there">>)
    IN  IF reply = "error" THEN GptFallback(lead, tone)
        ELSE [raised |-> "none",
              message |-> [lead |-> company,
                           contact_name |-> contact_name,
                           subject |-> <<"SUBJECT", company>>,
                           email_body |-> IF reply = "subject_and_body"
                                          THEN <<"BODY", company>>
                                          ELSE <<"SUBJECT", company>>,
                           generated_by |-> "openai_gpt4o_mini"]]

\* The loop of OutreachContentAgent.run over top_leads: the exception that
\* ended it, if any, and the messages appended.
RECURSIVE GenerateMessages(_, _, _, _)
GenerateMessages(top_leads, openai, persona, tone) ==
    IF top_leads = <<>> THEN { [raised |-> "none", messages |-> <<>>] }
    ELSE LET firsts == IF openai
                       THEN { generate_email_with_gpt(Head(top_leads), persona, tone, reply) :
                                reply \in LlmReplies }
                       ELSE { [raised |-> "none",
                               message |-> generate_email_template(Head(top_leads),
                                                                   persona, tone)] }
         IN  UNION { IF first.raised # "none"
                     THEN { [raised |-> first.raised, messages |-> <<>>] }
                     ELSE { IF rest.raised # "none" THEN rest
                            ELSE [raised |-> "none",
                                  messages |-> <<first.message>> \o rest.messages] :
                            rest \in GenerateMessages(Tail(top_leads), openai,
                                                      persona, tone) } :
                     first \in firsts }

\* OutreachContentAgent.run taking every ranked lead
Outreach_run_IgnoresTopN(inputs, openai) ==
    IF ~validate_inputs(inputs, <<"ranked_leads">>)
    THEN { Returns(inputs, [messages |-> <<>>]) }
    ELSE LET ranked_leads == inputs["ranked_leads"]
             persona == DictGet(inputs, "persona", "SDR")
             tone == DictGet(inputs, "tone", "professional and friendly")
         IN  IF ranked_leads = <<>>
             THEN { Returns(inputs, [messages |-> <<>>]) }
             ELSE { IF generated.raised # "none"
                    THEN Raises(inputs, generated.raised)
                    ELSE Returns(inputs, [messages |-> generated.messages]) :
                    generated \in GenerateMessages(ranked_leads, openai,
                                                   persona, tone) }

\* OutreachContentAgent.run
Outreach_run(inputs, openai) ==
    IF ~validate_inputs(inputs, <<"ranked_leads">>)
    THEN { Returns(inputs, [messages |-> <<>>]) }
    ELSE LET ranked_leads == inputs["ranked_leads"]
             top_n == DictGet(inputs, "top_n", 10)
             persona == DictGet(inputs, "persona", "SDR")
             tone == DictGet(inputs, "tone", "professional and friendly")
         IN  IF ranked_leads = <<>>
             THEN { Returns(inputs, [messages |-> <<>>]) }
             ELSE { IF generated.raised # "none"
                    THEN Raises(inputs, generated.raised)
                    ELSE Returns(inputs, [messages |-> generated.messages]) :
                    generated \in GenerateMessages(SliceTo(ranked_leads, top_n),
                                                   openai, persona, tone) }

\* Rates are in thousandths.  random.uniform draws any rate of its range;
\* these are the ends of the ranges and the values next to the thresholds.
OpenRates == {200, 249, 250, 299, 300, 350}
ReplyRates == {20, 49, 50, 80}
ClickRates == {50, 150}

\* FeedbackTrainerAgent._simulate_campaign_metrics: the metrics it can draw
simulate_campaign_metrics(num_emails) ==
    { [emails_sent |-> num_emails,
       opens |-> (num_emails * open_rate) \div 1000,
       replies |-> (num_emails * reply_rate) \div 1000,
       clicks |-> (num_emails * click_rate) \div 1000,
       open_rate |-> open_rate, reply_rate |-> reply_rate,
       click_rate |-> click_rate] :
      open_rate \in OpenRates, reply_rate \in ReplyRates, click_rate \in ClickRates }

\* A recommendation: its category, priority_order[priority] and confidence
\* (in hundredths), and the sort key made of the two.
Recommendation(category, priority, confidence) ==
    [category |-> category, priority |-> priority, confidence |-> confidence,
     sort_key |-> 100 * priority + confidence]

\* FeedbackTrainerAgent._generate_recommendations
generate_recommendations(metrics, thresholds, responses) ==
    LET open_threshold == DictGet(thresholds, "open_rate_threshold", 250)
        reply_threshold == DictGet(thresholds, "reply_rate_threshold", 50)
        recommendations ==
            (IF metrics.open_rate < open_threshold
             THEN <<Recommendation("subject_line", 3, 85)>> ELSE <<>>)
            \o (IF metrics.reply_rate < reply_threshold
                THEN <<Recommendation("email_content", 3, 78)>> ELSE <<>>)
            \o <<Recommendation("icp_targeting", 2, 72)>>
            \o (IF metrics.open_rate < 300
                THEN <<Recommendation("send_timing", 2, 80)>> ELSE <<>>)
            \o <<Recommendation("follow_up", 3, 88)>>
    IN  SliceTo(SortedReverse(recommendations, "sort_key"), 5)

\* FeedbackTrainerAgent.run raising on inputs without responses
FeedbackTrainer_run_RaisesOnMissing(inputs) ==
    IF ~validate_inputs(inputs, <<"responses">>)
    THEN { Raises(inputs, "ValueError") }
    ELSE LET responses == inputs["responses"]
             campaign_metrics == DictGet(inputs, "campaign_metrics", << >>)
         IN  IF responses = <<>>
             THEN { Returns(inputs, [recommendations |-> <<>>, status |-> "no_data"]) }
             ELSE { Returns(inputs,
                       [recommendations |->
                           generate_recommendations(simulated_metrics,
                                                    campaign_metrics, responses),
                        campaign_metrics |-> simulated_metrics,
                        status |-> "pending_approval"]) :
                    simulated_metrics \in simulate_campaign_metrics(Len(responses)) }

\* FeedbackTrainerAgent.run
FeedbackTrainer_run(inputs) ==
    IF ~validate_inputs(inputs, <<"responses">>)
    THEN { Returns(inputs, [recommendations |-> <<>>, status |-> "failed"]) }
    ELSE LET responses == inputs["responses"]
             campaign_metrics == DictGet(inputs, "campaign_metrics", << >>)
         IN  IF responses = <<>>
             THEN { Returns(inputs, [recommendations |-> <<>>, status |-> "no_data"]) }
             ELSE { Returns(inputs,
                       [recommendations |->
                           generate_recommendations(simulated_metrics,
                                                    campaign_metrics, responses),
                        campaign_metrics |-> simulated_metrics,
                        status |-> "pending_approval"]) :
                    simulated_metrics \in simulate_campaign_metrics(Len(responses)) }

\* The longest list of leads (and of messages) handed to an agent.
MaxLeads == 3

\* d without the key k
Without(d, k) == [x \in (DOMAIN d) \ {k} |-> d[x]]

\* The inputs of d with one of its keys missing.
OneKeyMissing(d) == { Without(d, k) : k \in DOMAIN d }

\* The lists of at most n elements of a set.
ListsOf(set, n) == UNION { [1..k -> set] : k \in 0..n }

\* employee_count ranges of an ICP: matched by 6 of the mock companies, by
\* the 5 of at least 300 employees (no upper end), and by none.
EmployeeRanges ==
    { [min |-> 200, max |-> 500], [min |-> 300], [min |-> 1000, max |-> 2000] }

SignalLists == { <<>>, <<"recent_funding">> }

SearchInputs ==
    LET complete == { [industry |-> "SaaS", location |-> "USA",
                       employee_count |-> employee_count, signals |-> signals] :
                      employee_count \in EmployeeRanges, signals \in SignalLists }
    IN  complete \cup OneKeyMissing([industry |-> "SaaS", location |-> "USA",
                                     employee_count |-> [min |-> 300],
                                     signals |-> <<>>])

\* The leads handed to the scoring agent: three of the mock companies and a
\* small company without contact name and signal.
LeadPool ==
    { mock_companies[1], mock_companies[2], mock_companies[4],
      Lead("Tiny Co", <<>>, "", 10, 50) }

ScoringCriteria ==
    [revenue_weight |-> 5, employee_count_weight |-> 3, signal_weight |-> 2]

ScoringInputs ==
    { [leads |-> leads] : leads \in ListsOf(LeadPool, MaxLeads) }
    \cup { [leads |-> leads, scoring_criteria |-> ScoringCriteria] :
           leads \in ListsOf(LeadPool, MaxLeads) }
    \cup { << >>, [scoring_criteria |-> ScoringCriteria] }

\* The ranked lists the scoring agent returns for them.
RankedLists ==
    { outcome.output.ranked_leads :
        outcome \in UNION { Scoring_run([leads |-> leads]) :
                            leads \in ListsOf(LeadPool, MaxLeads) } }

TopNs == {-1, 0, 2}

OutreachInputs ==
    { [ranked_leads |-> ranked_leads, tone |-> "professional"] :
        ranked_leads \in RankedLists }
    \cup { [ranked_leads |-> ranked_leads, top_n |-> top_n] :
           ranked_leads \in RankedLists, top_n \in TopNs }
    \cup { << >>, [top_n |-> 2] }

Thresholds == [open_rate_threshold |-> 300, reply_rate_threshold |-> 30]

FeedbackInputs ==
    { [responses |-> responses] : responses \in ListsOf({"message"}, MaxLeads) }
    \cup { [responses |-> responses, campaign_metrics |-> Thresholds] :
           responses \in ListsOf({"message"}, MaxLeads) }
    \cup { << >>, [campaign_metrics |-> Thresholds] }

\* An agent has been constructed and its run is called with some inputs.
InitAgents ==
    /\ file = "absent"
    /\ workflow = NoWorkflow
    /\ pc = "idle"
    /\ loaded = <<>>
    /\ graph = NoGraph
    /\ current = END
    /\ state = << >>
    /\ executed = <<>>
    /\ raised = "none"
    /\ report = NoReport
    /\ saved = FALSE
    /\ input_config = <<>>
    /\ call_state = << >>
    /\ resolved_inputs = << >>
    /\ call = "idle"
    /\ \/ run_agent = ProspectSearchAgent /\ run_inputs \in SearchInputs
          /\ use_openai = FALSE
       \/ run_agent = ScoringAgent /\ run_inputs \in ScoringInputs
          /\ use_openai = FALSE
       \/ run_agent = OutreachContentAgent /\ run_inputs \in OutreachInputs
          /\ use_openai \in BOOLEAN
       \/ run_agent = FeedbackTrainerAgent /\ run_inputs \in FeedbackInputs
          /\ use_openai = FALSE
    /\ run_pc = "called"
    /\ run_output = << >>
    /\ run_raised = "none"

\* run has one of its outcomes.
Run(outcomes) ==
    /\ run_pc = "called"
    /\ \E outcome \in outcomes :
          /\ run_raised' = outcome.raised
          /\ run_output' = outcome.output
          /\ run_inputs' = outcome.inputs
          /\ run_pc' = IF outcome.raised = "none" THEN "returned" ELSE "raised"
    /\ UNCHANGED <<run_agent, use_openai>>
    /\ UNCHANGED <<main_vars, resolver_vars>>

ProspectSearchRun ==
    /\ run_agent = ProspectSearchAgent
    /\ Run(ProspectSearch_run(run_inputs))

ScoringRun ==
    /\ run_agent = ScoringAgent
    /\ Run(Scoring_run(run_inputs))

OutreachContentRun ==
    /\ run_agent = OutreachContentAgent
    /\ Run(Outreach_run(run_inputs, use_openai))

FeedbackTrainerRun ==
    /\ run_agent = FeedbackTrainerAgent
    /\ Run(FeedbackTrainer_run(run_inputs))

NextAgents ==
    \/ ProspectSearchRun
    \/ ScoringRun
    \/ OutreachContentRun
    \/ FeedbackTrainerRun

SpecAgents == InitAgents /\ [][NextAgents]_vars

----------------------------------------------------------------------------
(* Vocabulary of the properties.                                           *)

\* The run has ended: main returned or an exception left it.
RunOver == pc \in {"done", "raised"}

\* The execution went: step 1 returned, step 2 raised.
SecondStepRaised ==
    /\ Len(workflow.steps) = 3
    /\ Len(executed) >= 2
    /\ executed[1].result = "success"
    /\ executed[2].result = "failed"

\* Every step of the workflow ran and every agent returned.
AllStepsReturned ==
    /\ Len(executed) = Len(workflow.steps)
    /\ \A k \in DOMAIN executed : executed[k].result = "success"

\* Step outcomes a report carries: the steps it counts as executed and the
\* errors it lists (a failure report carries its one error).
StepsRecorded(r) ==
    IF "steps_executed" \in DOMAIN r THEN r.steps_executed + Len(r.errors)
    ELSE IF "error" \in DOMAIN r THEN 1
    ELSE 0

\* The workflow lacks a required key or has no non-empty list of steps.
Malformed(w) ==
    \/ ~w.has_name
    \/ w.steps_kind # "list"
    \/ w.steps = <<>>
    \/ \E i \in DOMAIN w.steps : \E field \in required_step_fields :
          w.missing = <<i, field>>

\* The values of the step-output entries of the state.
StateValues(st) == { st[k] : k \in (DOMAIN st) \ {"step_count", "errors"} }

\* The text is exactly "{{S.output.F}}".
IsReference(value) ==
    /\ value.t = "str"
    /\ Len(value.s) = 9
    /\ value.s = Placeholder(value.s[3], value.s[7])

\* executed[j] is step S returning value under field F.
Produced(j, S, F, value) ==
    /\ executed[j].id = S
    /\ executed[j].result = "success"
    /\ \E n \in DOMAIN executed[j].output :
          executed[j].output[n] = <<F, value>>

----------------------------------------------------------------------------
(* Properties.                                                             *)

\* C1: in a 3-step workflow with continue_on_error false whose step 2 agent
\* raises, step 3 never executes, the reported status is "partial_failure"
\* and the report records exactly the 2 attempted steps.
C1_StopsWithPartialFailure ==
    (pc = "done" /\ SecondStepRaised /\ ~workflow.continue_on_error)
    => /\ \A k \in DOMAIN executed : executed[k].pos # 3
       /\ report.status = "partial_failure"
       /\ StepsRecorded(report) = 2

\* C2: in the same workflow with continue_on_error true, all 3 steps are
\* attempted, the report has 3 step results and the status is
\* "partial_failure".
C2_ContinuesAfterFailure ==
    (pc = "done" /\ SecondStepRaised /\ workflow.continue_on_error)
    => /\ Len(executed) = 3
       /\ executed[3].pos = 3
       /\ StepsRecorded(report) = 3
       /\ report.status = "partial_failure"

\* C3: the steps of a validated workflow run in the listed order: the k-th
\* node to run is the k-th step, it runs only after all earlier steps have
\* returned, and the node that runs next is the step after the last one run.
C3_StepsRunInListedOrder ==
    /\ \A k \in DOMAIN executed :
          /\ executed[k].pos = k
          /\ executed[k].id = workflow.steps[k].id
          /\ k < Len(executed) => executed[k].result = "success"
    /\ (pc = "invoke" /\ current # END)
          => /\ Len(executed) < Len(workflow.steps)
             /\ current = workflow.steps[Len(executed) + 1].id
    /\ (pc = "invoke" /\ current = END) => Len(executed) = Len(workflow.steps)

C3_Witness ==
    /\ pc = "done"
    /\ Len(workflow.steps) = 3
    /\ AllStepsReturned

\* C4: when every agent returns, the status is "completed", the executed-step
\* count is the number of steps, no error is recorded, and the final store
\* holds an entry for every step (a value that step produced).
C4_AllSucceedOneEntryPerStep ==
    (pc = "done" /\ AllStepsReturned)
    => /\ report.status = "completed"
       /\ report.steps_executed = Len(workflow.steps)
       /\ report.errors = <<>>
       /\ \A k \in DOMAIN workflow.steps :
             \E value \in StateValues(state) : value.n = k

\* C5: a malformed workflow is rejected with an error before any agent class
\* is loaded, any agent invoked or any result produced.
C5_MalformedRejectedEarly ==
    (file = "ok" /\ Malformed(workflow))
    => /\ pc \in {"load_workflow", "validate_workflow", "raised"}
       /\ pc = "raised" => raised \in {"ValueError", "TypeError"}
       /\ loaded = <<>>
       /\ graph = NoGraph
       /\ executed = <<>>
       /\ report = NoReport
       /\ ~saved

C5_Witness ==
    /\ pc = "raised"
    /\ raised = "ValueError"
    /\ workflow.has_name
    /\ Len(workflow.steps) = 2
    /\ workflow.missing = <<2, "agent">>

\* C6: every workflow that passes validate_workflow has pairwise distinct
\* step ids.
C6_ValidatedIdsDistinct ==
    pc = "build_langgraph"
    => \A i, j \in DOMAIN workflow.steps :
          i # j => workflow.steps[i].id # workflow.steps[j].id

\* C7: an input "{{S.output.F}}" resolves only to what step S itself returned
\* under F; otherwise it stays the placeholder text.
C7_ReferenceResolvesOwnStepOnly ==
    \A k \in DOMAIN executed :
        LET config == workflow.steps[executed[k].pos].inputs
        IN  \A n \in DOMAIN config :
               LET key == config[n][1]
                   value == config[n][2]
               IN  IsReference(value)
                   => \/ executed[k].inputs[key] = value
                      \/ \E j \in 1..(k - 1) :
                            Produced(j, value.s[3], value.s[7],
                                     executed[k].inputs[key])

\* C8: after an agent returns, every field of its output is retrievable from
\* the store with exactly the value returned for it.
C8_OutputFieldsRetrievable ==
    (executed # <<>> /\ executed[Len(executed)].result = "success")
    => \A n \in DOMAIN executed[Len(executed)].output :
          executed[Len(executed)].output[n][2] \in StateValues(state)

\* The step-output entries of a state, as a function of their keys.
StepOutputs(st) == [k \in (DOMAIN st) \ {"step_count", "errors"} |-> st[k]]

\* C9: when an exception escapes a step's agent, no step-output entry of the
\* state changes and step_count is not incremented, the step's error message
\* is appended to the errors, and the exception goes up to execute_langgraph,
\* whose report then is a failure carrying the error.
C9_RaisingStepWritesNothing ==
    [][ /\ (Len(executed') = Len(executed) + 1
             /\ executed'[Len(executed')].result = "failed")
           => /\ StepOutputs(state') = StepOutputs(state)
              /\ state'["step_count"] = state["step_count"]
              /\ state'["errors"].s =
                    Append(state["errors"].s, executed'[Len(executed')].id)
              /\ raised' # "none"
              /\ pc' = "except"
        /\ pc = "except"
           => /\ report'.status = "failed"
              /\ report'.error = raised ]_vars

C9_Witness ==
    /\ pc = "except"
    /\ Len(executed) = 2
    /\ executed[1].result = "success"
    /\ executed[2].result = "failed"
    /\ "leads" \in DOMAIN state
    /\ state["step_count"].n = 1
    /\ state["errors"].s = <<executed[2].id>>

\* The first step whose agent name has no class in the agents package, 0 if
\* every agent name has one.
FirstUnresolvable(w) ==
    LET bad == { i \in DOMAIN w.steps :
                   \/ ModuleName(w.steps[i].agent) \notin AgentModules
                   \/ ClassOf(ModuleName(w.steps[i].agent)) # w.steps[i].agent }
    IN  IF bad = {} THEN 0 ELSE CHOOSE i \in bad : \A j \in bad : i <= j

\* The ids of the steps before position i are pairwise distinct.
DistinctIdsBefore(w, i) ==
    \A j, k \in 1..(i - 1) : j # k => w.steps[j].id # w.steps[k].id

StructuredReport(r) ==
    /\ {"workflow_name", "start_time", "end_time", "status"} \subseteq DOMAIN r
    /\ r.status \in {"completed", "partial_failure", "failed"}

\* C11: once execute_langgraph has handed the initial state to graph.invoke,
\* no exception leaves execute_langgraph or main whatever step raises (the
\* run is in graph.invoke, in the except clause, or past it), what
\* execute_langgraph returns is a structured report, and main has saved it
\* when it returns.
C11_ReportAlwaysProduced ==
    state # << >>
    => /\ pc \in {"invoke", "except", "save_results", "done"}
       /\ raised # "none" => pc = "except"
       /\ pc \in {"save_results", "done"} => StructuredReport(report)
       /\ pc = "done" => saved

C11_Witness ==
    /\ pc = "done"
    /\ saved
    /\ StructuredReport(report)
    /\ report.status = "failed"
    /\ Len(executed) = 1
    /\ Len(workflow.steps) = 3

\* C12: a run whose workflow fails to load or validate ends with the
\* exception leaving main, no agent class loaded, no step run and nothing
\* reported or saved; a run that executed steps and had one fail ends with
\* main returning after saving a report: the two outcomes differ.
C12_PreExecutionFailureDistinct ==
    /\ (file # "ok" \/ Malformed(workflow))
          => /\ loaded = <<>>
             /\ executed = <<>>
             /\ pc \notin {"build_langgraph", "execute_langgraph", "invoke",
                           "except", "save_results", "done"}
             /\ RunOver => (pc = "raised" /\ raised # "none"
                              /\ ~saved /\ report = NoReport)
    /\ (RunOver /\ \E k \in DOMAIN executed : executed[k].result = "failed")
          => (pc = "done" /\ raised = "none" /\ saved
                /\ report # NoReport /\ report.status = "failed")

C12_Witness ==
    /\ pc = "raised"
    /\ file = "bad_json"
    /\ raised = "JSONDecodeError"

\* The text has "{{" somewhere.
HasBraces(tokens) ==
    \E i \in 1..(Len(tokens) - 1) : tokens[i] = "{" /\ tokens[i + 1] = "{"

\* The value contains placeholder syntax, itself or in one of its elements.
HasPlaceholderSyntax(value) ==
    \/ value.t = "str" /\ HasBraces(value.s)
    \/ \E j \in DOMAIN value.e : value.e[j].t = "str" /\ HasBraces(value.e[j].s)

\* The keys of an input configuration.
ConfigKeys(config) == { config[i][1] : i \in DOMAIN config }

\* C13: for an input mapping none of whose values contains placeholder
\* syntax, and any state, the resolved inputs equal the original mapping:
\* same keys, same values.
C13_IdentityWithoutPlaceholders ==
    (call = "returned"
       /\ \A i \in DOMAIN input_config : ~HasPlaceholderSyntax(input_config[i][2]))
    => /\ DOMAIN resolved_inputs = ConfigKeys(input_config)
       /\ \A i \in DOMAIN input_config :
             resolved_inputs[input_config[i][1]] = input_config[i][2]

C13_Witness ==
    /\ call = "returned"
    /\ Len(input_config) = 2
    /\ \A i \in DOMAIN input_config : ~HasPlaceholderSyntax(input_config[i][2])
    /\ \E i \in DOMAIN input_config : input_config[i][2] = StrVal(<<"leads">>)
    /\ "leads" \in DOMAIN call_state

\* C14: an input that is exactly "{{a.output.b}}", resolved against a state
\* that holds X under field b, X a list, a number or a mapping, becomes X
\* itself, type included, not a string.
C14_WholeReferenceKeepsType ==
    call = "returned"
    => \A i \in DOMAIN input_config :
          LET key == input_config[i][1]
              value == input_config[i][2]
          IN  (IsReference(value)
                 /\ value.s[7] \in DOMAIN call_state
                 /\ call_state[value.s[7]].t \in {"list", "int", "dict"})
              => /\ resolved_inputs[key] = call_state[value.s[7]]
                 /\ resolved_inputs[key].t # "str"

C14_Witness ==
    /\ call = "returned"
    /\ \E i \in DOMAIN input_config :
          /\ input_config[i][2] = StrVal(Placeholder("a", "b"))
          /\ resolved_inputs[input_config[i][1]] = IntVal(42)

\* C15: the input "prefix {{a.output.b}} suffix", with field b = 42 in the
\* state, resolves to the string "prefix 42 suffix".
C15_EmbeddedReferenceSubstituted ==
    call = "returned"
    => \A i \in DOMAIN input_config :
          (input_config[i][2] = StrVal(EmbeddedReference)
             /\ "b" \in DOMAIN call_state
             /\ call_state["b"] = IntVal(42))
          => resolved_inputs[input_config[i][1]] =
                StrVal(<<"prefix", " ", "42", " ", "suffix">>)

\* C16: a reference whose field is not in the state keeps its literal text
\* (the call returns, with every key of the configuration), while the other
\* references of the same configuration are resolved.
C16_UnresolvedReferenceKeptLiteral ==
    call = "returned"
    => /\ DOMAIN resolved_inputs = ConfigKeys(input_config)
       /\ \A i \in DOMAIN input_config :
             LET key == input_config[i][1]
                 value == input_config[i][2]
             IN  IsReference(value)
                 => IF value.s[7] \in DOMAIN call_state
                    THEN resolved_inputs[key] = call_state[value.s[7]]
                    ELSE resolved_inputs[key] = value

C16_Witness ==
    /\ call = "returned"
    /\ "b" \in DOMAIN call_state
    /\ "x" \notin DOMAIN call_state
    /\ \E i, j \in DOMAIN input_config :
          /\ input_config[i][2] = StrVal(Placeholder("missing", "x"))
          /\ resolved_inputs[input_config[i][1]] = StrVal(Placeholder("missing", "x"))
          /\ input_config[j][2] = StrVal(Placeholder("a", "b"))
          /\ resolved_inputs[input_config[j][1]] = call_state["b"]

\* What a reference inside a list resolves to when it is resolved like a
\* top-level one.
ResolvedElement(elem, st) ==
    IF IsReference(elem) /\ elem.s[7] \in DOMAIN st THEN st[elem.s[7]] ELSE elem

\* C17: a placeholder inside a list of a step's inputs is resolved like a
\* top-level one, the order of the elements kept.
C17_NestedReferencesResolved ==
    call = "returned"
    => \A i \in DOMAIN input_config :
          LET key == input_config[i][1]
              value == input_config[i][2]
          IN  value.e # <<>>
              => /\ Len(resolved_inputs[key].e) = Len(value.e)
                 /\ \A j \in DOMAIN value.e :
                       resolved_inputs[key].e[j] = ResolvedElement(value.e[j], call_state)

\* C18: resolving inputs changes neither the state nor the input
\* configuration (nor anything else of the run); it only produces the
\* resolved inputs.
C18_ResolutionHasNoSideEffects ==
    [][ call = "called"
        => /\ input_config' = input_config
           /\ call_state' = call_state
           /\ main_vars' = main_vars
           /\ DOMAIN resolved_inputs' = ConfigKeys(input_config) ]_vars

C18_Witness ==
    /\ call = "returned"
    /\ \E i \in DOMAIN input_config :
          /\ input_config[i][2] = StrVal(Placeholder("a", "b"))
          /\ resolved_inputs[input_config[i][1]] # input_config[i][2]

\* The store as the outputs of the first n entries of executed leave it:
\* each returned output written in the order the steps ran.
RECURSIVE WrittenBy(_)
WrittenBy(n) ==
    IF n = 0 THEN initial_state(workflow)
    ELSE IF executed[n].result = "success"
    THEN update_state_with_output(WrittenBy(n - 1), executed[n].id,
                                  executed[n].output)
    ELSE WrittenBy(n - 1)

\* C19: no step is executed a second time in a run, neither after it
\* returned nor after it raised: the entries of the execution are pairwise
\* different steps, a raising step ends the execution, and a step that
\* already ran is never the one to run next.
C19_EachStepAtMostOnce ==
    /\ \A j \in DOMAIN executed : \A k \in DOMAIN executed :
          j # k => /\ executed[j].pos # executed[k].pos
                   /\ executed[j].id # executed[k].id
    /\ \A k \in DOMAIN executed :
          executed[k].result = "failed"
          => /\ k = Len(executed)
             /\ pc # "invoke"
    /\ (pc = "invoke" /\ current # END)
          => \A k \in DOMAIN executed : executed[k].id # current

C19_Witness ==
    /\ pc = "done"
    /\ Len(workflow.steps) = 3
    /\ Len(executed) = 3
    /\ executed[3].result = "failed"

\* C20: steps run one at a time and to completion: the step to run next is
\* the one after those that completed, the store it will read holds every
\* output the earlier steps returned, and the inputs each step ran with
\* were resolved against the store with all earlier outputs written.
C20_ReadAfterWrite ==
    /\ (pc = "invoke" /\ current # END)
          => /\ NodePos(graph, current) = Len(executed) + 1
             /\ \A key \in DOMAIN WrittenBy(Len(executed)) :
                   /\ key \in DOMAIN state
                   /\ key \notin {"step_count", "errors"}
                        => state[key] = WrittenBy(Len(executed))[key]
    /\ \A k \in DOMAIN executed :
          executed[k].inputs =
             prepare_inputs_from_state(workflow.steps[executed[k].pos].inputs,
                                       WrittenBy(k - 1))

C20_Witness ==
    /\ Len(executed) = 3
    /\ executed[1].output # << >>
    /\ executed[2].output # << >>
    /\ \E i \in DOMAIN workflow.steps[3].inputs :
          LET key == workflow.steps[3].inputs[i][1]
              value == workflow.steps[3].inputs[i][2]
          IN  /\ IsReference(value)
              /\ value.s[3] = executed[2].id
              /\ executed[3].inputs[key] = executed[2].output[1][2]

\* C21: during a run the step-output entries of the state only grow: no key
\* is removed, and a value written by a step is not replaced while later
\* steps run.
C21_StoreOnlyGrows ==
    [][ (state # << >> /\ state' # << >>)
        => \A key \in DOMAIN StepOutputs(state) :
              /\ key \in DOMAIN state'
              /\ state[key].n >= 1 => state'[key] = state[key] ]_vars


\* C27: after a step with a mapped id returned, the state key mapped to the
\* step holds the value the agent returned under that key, and after
\* feedback_trainer returned last, the report's recommendations_count is the
\* length of the returned recommendations.
C27_MappedKeyHoldsReturnedValue ==
    (executed # <<>> /\ executed[Len(executed)].result = "success"
       /\ executed[Len(executed)].id \in MappingKeys)
    => LET last == executed[Len(executed)]
           key == MappedKey(last.id)
       IN  \A n \in DOMAIN last.output :
              last.output[n][1] = key
              => /\ state[key] = last.output[n][2]
                 /\ (pc = "done" /\ report.status = "completed"
                       /\ key = "recommendations")
                      => report.final_state.recommendations_count
                            = PyLen(last.output[n][2])

\* The number of entries of the execution whose agent returned.
Succeeded == Cardinality({ k \in DOMAIN executed : executed[k].result = "success" })

RequiredFields(agent_class) ==
    CASE agent_class = ProspectSearchAgent ->
            <<"industry", "location", "employee_count", "signals">>
      [] agent_class = ScoringAgent -> <<"leads">>
      [] agent_class = OutreachContentAgent -> <<"ranked_leads">>
      [] agent_class = FeedbackTrainerAgent -> <<"responses">>

\* The call of run is over: it returned or raised.
RunEnded == run_pc \in {"returned", "raised"}

\* C22: ProspectSearchAgent.run, given all required inputs, never raises and
\* returns a mapping with a list under "leads", whatever the employee-count
\* range and the signals match.
C22_SearchNeverRaises ==
    (run_agent = ProspectSearchAgent /\ RunEnded
       /\ validate_inputs(run_inputs, RequiredFields(ProspectSearchAgent)))
    => /\ run_pc = "returned"
       /\ run_raised = "none"
       /\ DOMAIN run_output = {"leads"}
       /\ Len(run_output.leads) <= Len(mock_companies)

\* The result each agent's run gives for inputs it does not accept.
EmptyResult(agent_class) ==
    CASE agent_class = ProspectSearchAgent -> [leads |-> <<>>]
      [] agent_class = ScoringAgent -> [ranked_leads |-> <<>>]
      [] agent_class = OutreachContentAgent -> [messages |-> <<>>]
      [] agent_class = FeedbackTrainerAgent ->
            [recommendations |-> <<>>, status |-> "failed"]

\* C23: run on inputs lacking a required key returns the agent's
\* empty/failed result and does not raise, for each of the four agents.
C23_MissingKeyReturnsEmptyResult ==
    (RunEnded /\ ~validate_inputs(run_inputs, RequiredFields(run_agent)))
    => /\ run_pc = "returned"
       /\ run_raised = "none"
       /\ run_output = EmptyResult(run_agent)

C23_Witness ==
    /\ run_agent = FeedbackTrainerAgent
    /\ run_pc = "returned"
    /\ "responses" \notin DOMAIN run_inputs
    /\ "campaign_metrics" \in DOMAIN run_inputs
    /\ run_output.status = "failed"

\* The leads OutreachContentAgent.run generates messages for.
SelectedLeads(inputs) == SliceTo(inputs["ranked_leads"], DictGet(inputs, "top_n", 10))

\* C24: in external-LLM mode run never raises, also when the completion
\* fails for a lead: it returns one message per selected lead, each with a
\* subject and an email_body.
C24_LlmFailureFallsBack ==
    (run_agent = OutreachContentAgent /\ use_openai /\ RunEnded
       /\ validate_inputs(run_inputs, RequiredFields(OutreachContentAgent)))
    => /\ run_pc = "returned"
       /\ Len(run_output.messages) = Len(SelectedLeads(run_inputs))
       /\ \A i \in DOMAIN run_output.messages :
             {"subject", "email_body"} \subseteq DOMAIN run_output.messages[i]

\* C25: on a non-empty list of leads ScoringAgent.run returns one scored copy
\* of every lead, ordered from the highest score to the lowest, each with
\* its 1-based position as ranking.
C25_RankedByScore ==
    (run_agent = ScoringAgent /\ run_pc = "returned"
       /\ "leads" \in DOMAIN run_inputs /\ run_inputs["leads"] # <<>>)
    => LET leads == run_inputs["leads"]
           ranked_leads == run_output.ranked_leads
       IN  /\ Len(ranked_leads) = Len(leads)
           /\ \E place \in [DOMAIN ranked_leads -> DOMAIN leads] :
                 /\ \A i, j \in DOMAIN ranked_leads : i # j => place[i] # place[j]
                 /\ \A i \in DOMAIN ranked_leads :
                       Without(Without(ranked_leads[i], "ranking"), "score")
                          = leads[place[i]]
           /\ \A i \in DOMAIN ranked_leads :
                 /\ {"score", "ranking"} \subseteq DOMAIN ranked_leads[i]
                 /\ ranked_leads[i]["ranking"] = i
                 /\ \A j \in DOMAIN ranked_leads :
                       i < j => ranked_leads[i]["score"] >= ranked_leads[j]["score"]

C25_Witness ==
    /\ run_agent = ScoringAgent
    /\ run_pc = "returned"
    /\ "leads" \in DOMAIN run_inputs
    /\ Len(run_inputs["leads"]) = 3
    /\ run_output.ranked_leads[1]["company"] = run_inputs["leads"][3]["company"]
    /\ run_output.ranked_leads[1]["score"] > run_output.ranked_leads[3]["score"]

C30_ScoringLeavesInputs ==
    [][ (run_agent = ScoringAgent /\ run_pc = "called")
        => /\ run_inputs' = run_inputs
           /\ "leads" \in DOMAIN run_inputs
                => /\ \A i \in DOMAIN run_inputs'["leads"] :
                         DOMAIN run_inputs'["leads"][i] \cap {"score", "ranking"} = {}
                   /\ \A i \in DOMAIN run_output'.ranked_leads :
                         {"score", "ranking"} \subseteq
                            DOMAIN run_output'.ranked_leads[i] ]_vars

C30_Witness ==
    /\ run_agent = ScoringAgent
    /\ run_pc = "returned"
    /\ "leads" \in DOMAIN run_inputs
    /\ Len(run_inputs["leads"]) = 2
    /\ Len(run_output.ranked_leads) = 2
    /\ "score" \in DOMAIN run_output.ranked_leads[1]
    /\ "score" \notin DOMAIN run_inputs["leads"][1]

====
